---- MODULE Spec2Model ----
(***************************************************************************)
(* Auto-registration face recognition service (src/main.py).               *)
(*                                                                         *)
(* The gallery is the SQLite database (tables auto_persons and detections) *)
(* plus the reference images under FACE_DATABASE_DIR.  Each worker is one  *)
(* server process running the check_person handler; a worker handles one   *)
(* request at a time (the handler is an async function with no suspension  *)
(* point after the upload has been read) and workers interleave with each  *)
(* other at every database statement and every face-service call.         *)
(*                                                                         *)
(* Confidences, distances and thresholds are integer percentages:          *)
(* confidence = 100 - distance models (1 - distance) * 100, and a          *)
(* threshold t models threshold * 100.  confidence_avg is an exact         *)
(* rational <<numerator, denominator>> in lowest terms.                    *)
(***************************************************************************)
EXTENDS Integers, Sequences, FiniteSets, TLC

\* ------------------------------------------------------------------ bounds
NumWorkers == 2
MaxCalls == 3
MaxClock == 1
MaxGallery == 2

Workers == 1..NumWorkers

\* ------------------------------------------------------------ input images
\* Uploads, named by their bytes: three photographs of face A, one of face
\* B, a landscape, a group photograph and a file the analyser cannot process.
Images == {"A1", "A2", "A3", "B1", "N0", "G2", "X0"}

\* The thresholds requests carry: check_person's default, 0.65 (line 325).
Thresholds == {65}

\* The hash seeds a worker process can have been started with.
Seeds == {0, 1}

None == [kind |-> "none"]
NoCode == <<>>

FaceOf(img) ==
    CASE img \in {"A1", "A2", "A3"} -> "A"
      [] img = "B1" -> "B"
      [] OTHER -> "-"

\* The faces DeepFace.analyze reports: the length of the list it returns,
\* or -1 when it raises.
DeepFace_analyze(img) ==
    CASE img \in {"A1", "A2", "A3", "B1"} -> 1
      [] img = "N0" -> 0
      [] img = "G2" -> 2
      [] OTHER -> -1

\* DeepFace.verify on two readable single-face images.
DeepFace_verify(img1, img2) ==
    LET d == IF img1 = img2 THEN 0
             ELSE IF {img1, img2} = {"A1", "A2"} THEN 20
             ELSE IF {img1, img2} = {"A1", "A3"} THEN 25
             ELSE IF FaceOf(img1) = FaceOf(img2) THEN 30
             ELSE 70
    IN  [kind |-> "ok", verified |-> (d <= 40), distance |-> d]

get_image_hash(image_content) == <<"md5", image_content>>

\* ---------------------------------------------------------------- rationals
RECURSIVE GCD(_, _)
GCD(a, b) == IF b = 0 THEN a ELSE GCD(b, a % b)

Rat(n, d) == LET g == GCD(n, d) IN IF g = 0 THEN <<0, 1>> ELSE <<n \div g, d \div g>>


\* ------------------------------------------------------------------ matcher
\* find_existing_person: src/main.py lines 149-199.  stored_persons is the
\* fetched (id, person_code, main_image_path) rows; outcome[i] is what the
\* i-th candidate yields: kind "missing" (os.path.exists is false), "error"
\* (DeepFace.verify raises) or "ok" with verified and distance.
\* The result is the returned dict; a key the dict does not carry is 0, and
\* for highest_similarity -1.
NoMatch == [person_id |-> 0, person_code |-> NoCode, confidence |-> 0]

ScanStep(st, row, out) ==
    LET confidence == 100 - out.distance
    IN  IF out.kind = "ok" /\ out.verified /\ confidence > st.highest_confidence
        THEN [highest_confidence |-> confidence,
              threshold |-> st.threshold,
              best_match |->
                  IF confidence >= st.threshold
                  THEN [person_id |-> row.id, person_code |-> row.person_code,
                        confidence |-> confidence]
                  ELSE st.best_match]
        ELSE st

RECURSIVE ScanFrom_abort(_, _, _, _)
ScanFrom_abort(st, stored_persons, outcome, i) ==
    IF i > Len(stored_persons) \/ outcome[i].kind # "ok" THEN st
    ELSE ScanFrom_abort(ScanStep(st, stored_persons[i], outcome[i]),
                        stored_persons, outcome, i + 1)

RECURSIVE ScanFrom(_, _, _, _)
ScanFrom(st, stored_persons, outcome, i) ==
    IF i > Len(stored_persons) THEN st
    ELSE ScanFrom(ScanStep(st, stored_persons[i], outcome[i]),
                  stored_persons, outcome, i + 1)

find_existing_person(stored_persons, outcome, threshold) ==
    IF Len(stored_persons) = 0
    THEN [found |-> FALSE, person_id |-> 0, person_code |-> NoCode,
          confidence |-> 0, highest_similarity |-> -1, error |-> FALSE]
    ELSE LET st == ScanFrom([highest_confidence |-> 0, threshold |-> threshold,
                             best_match |-> NoMatch],
                            stored_persons, outcome, 1)
         IN  IF st.best_match # NoMatch
             THEN [found |-> TRUE,
                   person_id |-> st.best_match.person_id,
                   person_code |-> st.best_match.person_code,
                   confidence |-> st.best_match.confidence,
                   highest_similarity |-> -1, error |-> FALSE]
             ELSE [found |-> FALSE, person_id |-> 0, person_code |-> NoCode,
                   confidence |-> 0,
                   highest_similarity |-> st.highest_confidence, error |-> FALSE]

\* -------------------------------------------------------------------- state
VARIABLES
    auto_persons,    \* committed rows of table auto_persons; id = index
    detections,      \* committed rows of table detections; id = index
    files,           \* reference images on disk: main_image_path -> bytes
    tempfiles,       \* names of the temporary probe files that exist
    clock,           \* datetime.now() to the second
    writer,          \* worker holding SQLite's write lock, 0 when free
    hashseed,        \* each worker process's string-hash seed
    ncalls,          \* requests received so far
    pc,              \* each worker's position in check_person
    request,         \* the upload being handled: bytes, threshold, hash
    temp_file_path,  \* check_person's local temp_file_path (0 = None)
    match_result,    \* check_person's local match_result
    tx,              \* rows written but not yet committed by the worker
    response,        \* what the worker's last request returned
    hist,            \* per request: what it has called and written so far
    lastCall,        \* the most recently returned request
    m_in,            \* matcher harness: gallery, outcomes and threshold
    m_out            \* matcher harness: result of find_existing_person

dbVars == <<auto_persons, detections>>
fsVars == <<files, tempfiles>>
reqVars == <<pc, request, temp_file_path, match_result, tx, response>>
mVars == <<m_in, m_out>>
vars == <<auto_persons, detections, files, tempfiles, clock, writer, hashseed,
          ncalls, pc, request, temp_file_path, match_result, tx, response,
          hist, lastCall, m_in, m_out>>

NoRequest == [img |-> "-", threshold |-> 0, image_hash |-> <<>>]
NoResult == [found |-> FALSE, person_id |-> 0, person_code |-> NoCode,
             confidence |-> 0, highest_similarity |-> -1, error |-> FALSE]
NoResponse == [status |-> "-", person_id |-> 0, person_code |-> NoCode,
               faces |-> 0, total_detections |-> 0, confidence_avg |-> <<0, 1>>]
NoCall == [valid |-> FALSE, img |-> "-", status |-> "-", person_id |-> 0,
           person_code |-> NoCode, solo |-> FALSE, wrote |-> FALSE,
           registering |-> FALSE]
NoHist == [analyzeCalls |-> 0, findCalls |-> 0, verifyCalls |-> 0,
           faces |-> 0, personsWritten |-> 0, detsWritten |-> 0,
           detsAtStart |-> 0, detsAtEnd |-> 0, personsAtScan |-> 0,
           detsAtScan |-> 0,
           tempCreated |-> 0,
           unmatched |-> FALSE, scanError |-> FALSE, solo |-> FALSE,
           prev |-> NoCall]
NoInput == [stored |-> <<>>, outcome |-> <<>>, threshold |-> 0, applied |-> FALSE]

InFlight(w) == pc[w] \notin {"idle", "done"}

\* init_database (lines 19-57) creates two empty tables.
Init ==
    /\ auto_persons = <<>>
    /\ detections = <<>>
    /\ files = <<>>
    /\ tempfiles = {}
    /\ clock = 0
    /\ writer = 0
    /\ hashseed \in {f \in [Workers -> Seeds] : f[1] = 0}
    /\ ncalls = 0
    /\ pc = [w \in Workers |-> "idle"]
    /\ request = [w \in Workers |-> NoRequest]
    /\ temp_file_path = [w \in Workers |-> 0]
    /\ match_result = [w \in Workers |-> NoResult]
    /\ tx = [w \in Workers |-> None]
    /\ response = [w \in Workers |-> NoResponse]
    /\ hist = [w \in Workers |-> NoHist]
    /\ lastCall = NoCall
    /\ m_in = NoInput
    /\ m_out = NoResult


\* ------------------------------------------------------- storage operations
\* SQLite admits one write transaction at a time: the first INSERT or UPDATE
\* of a connection takes the write lock and commit or rollback releases it.
CanWrite_unlocked(w) == TRUE

CanWrite(w) == writer = 0

\* generate_person_code (lines 144-147): the timestamp to the second plus
\* hash(timestamp) % 10000, a function of the timestamp and of the process's
\* string-hash seed.
StrHash(seed, timestamp) == (seed + timestamp) % 10000

generate_person_code(w) == <<clock, StrHash(hashseed[w], clock)>>

\* os.path.join(person_dir, "main_<timestamp>.jpg") (lines 211-215).
main_image_path(person_code) == <<person_code, clock>>

NewPersonRow_zero(person_code, path) ==
    [person_code |-> person_code, total_detections |-> 0,
     confidence_avg |-> <<0, 1>>, main_image_path |-> path]

\* The auto_persons row of lines 228-232 with the column defaults of lines
\* 33-34: total_detections 1 and confidence_avg 0.0.
NewPersonRow(person_code, path) ==
    [person_code |-> person_code, total_detections |-> 1,
     confidence_avg |-> <<0, 1>>, main_image_path |-> path]

FirstDetection_orphan(person_id, image_hash) ==
    [person_id |-> 0, confidence |-> 100, image_hash |-> image_hash]

\* The initiating detection of lines 238-242.
FirstDetection(person_id, image_hash) ==
    [person_id |-> person_id, confidence |-> 100, image_hash |-> image_hash]

UpdatedRow_newcount(row, confidence) ==
    [row EXCEPT
        !.total_detections = row.total_detections + 1,
        !.confidence_avg =
            Rat(row.confidence_avg[1] * row.total_detections
                    + confidence * row.confidence_avg[2],
                row.confidence_avg[2] * (row.total_detections + 1))]

\* The UPDATE of lines 267-273.  Every right-hand side reads the row as it
\* was before the statement, so total_detections is the pre-increment count.
UpdatedRow(row, confidence) ==
    [row EXCEPT
        !.total_detections = row.total_detections + 1,
        !.confidence_avg =
            Rat(row.confidence_avg[1] * (row.total_detections - 1)
                    + confidence * row.confidence_avg[2],
                row.confidence_avg[2] * row.total_detections)]

\* The detection logged by lines 285-289.
MatchDetection(person_id, confidence, image_hash) ==
    [person_id |-> person_id, confidence |-> confidence, image_hash |-> image_hash]

DuplicateCheck_skipped(image_hash) == 0

\* SELECT person_id FROM detections WHERE image_hash = ? ... fetchone()
\* (lines 346-347): the first matching row, 0 when there is none.
DuplicateCheck(image_hash) ==
    LET hits == {i \in 1..Len(detections) : detections[i].image_hash = image_hash}
    IN  IF hits = {} THEN 0
        ELSE detections[CHOOSE i \in hits : \A j \in hits : i <= j].person_id

\* SELECT id, person_code, main_image_path FROM auto_persons (lines 156-157).
StoredPersons ==
    [i \in 1..Len(auto_persons) |->
        [id |-> i, person_code |-> auto_persons[i].person_code,
         main_image_path |-> auto_persons[i].main_image_path]]

\* What each candidate yields for the probe (lines 167-188).
Outcomes(stored_persons, img) ==
    [i \in 1..Len(stored_persons) |->
        IF stored_persons[i].main_image_path \in DOMAIN files
        THEN DeepFace_verify(img, files[stored_persons[i].main_image_path])
        ELSE [kind |-> "missing", verified |-> FALSE, distance |-> 0]]

\* cleanup_temp_file in the finally clause (lines 449-451, 132-138).
Cleanup(existing, path) == IF path # 0 THEN existing \ {path} ELSE existing

\* The request returns (or raises): record the response.
Finish(w, img, resp, h) ==
    /\ pc' = [pc EXCEPT ![w] = "done"]
    /\ response' = [response EXCEPT ![w] = resp]
    /\ lastCall' = [valid |-> TRUE, img |-> img,
                    status |-> resp.status, person_id |-> resp.person_id,
                    person_code |-> resp.person_code, solo |-> h.solo,
                    wrote |-> h.detsWritten > 0,
                    registering |-> h.unmatched]

Respond(status) == [NoResponse EXCEPT !.status = status]

\* ----------------------------------------------------------------- requests
Uploads ==
    [content : Images, is_image : {TRUE}] \cup {[content |-> "X0", is_image |-> FALSE]}

\* check_person, lines 330-356: content-type check, hash, temporary copy and
\* exact-duplicate lookup.  save is how save_uploaded_file ends: "ok", or
\* "write_failed" when writing the created temporary file raises.
Receive(w, up, th, save) ==
    /\ ~InFlight(w)
    /\ ncalls < MaxCalls
    /\ ncalls' = ncalls + 1
    /\ LET name == ncalls + 1
           image_hash == get_image_hash(up.content)
           duplicate_check == DuplicateCheck(image_hash)
           h == [NoHist EXCEPT !.detsAtStart = Len(detections),
                               !.detsAtEnd = Len(detections),
                               !.solo = \A v \in Workers \ {w} : ~InFlight(v),
                               !.prev = lastCall,
                               !.tempCreated = IF up.is_image THEN name ELSE 0]
       IN
       /\ request' = [request EXCEPT ![w] =
              [img |-> up.content, threshold |-> th, image_hash |-> image_hash]]
       /\ hist' = [v \in Workers |->
              IF v = w THEN h
              ELSE IF InFlight(v) THEN [hist[v] EXCEPT !.solo = FALSE]
              ELSE hist[v]]
       /\ match_result' = [match_result EXCEPT ![w] = NoResult]
       /\ IF ~up.is_image
          THEN \* HTTP 400 before anything is created
               /\ save = "ok"
               /\ temp_file_path' = [temp_file_path EXCEPT ![w] = 0]
               /\ tempfiles' = tempfiles
               /\ Finish(w, up.content, Respond("http_400"), h)
          ELSE IF save = "write_failed"
          THEN \* the file exists but its name never reaches check_person
               /\ temp_file_path' = [temp_file_path EXCEPT ![w] = 0]
               /\ tempfiles' = Cleanup(tempfiles \cup {name}, 0)
               /\ Finish(w, up.content, Respond("http_500"), h)
          ELSE IF duplicate_check # 0
          THEN /\ temp_file_path' = [temp_file_path EXCEPT ![w] = name]
               /\ tempfiles' = Cleanup(tempfiles \cup {name}, name)
               /\ Finish(w, up.content, [Respond("exact_duplicate") EXCEPT
                                !.person_id = duplicate_check], h)
          ELSE /\ temp_file_path' = [temp_file_path EXCEPT ![w] = name]
               /\ tempfiles' = tempfiles \cup {name}
               /\ pc' = [pc EXCEPT ![w] = "analyze"]
               /\ UNCHANGED <<response, lastCall>>
    /\ UNCHANGED <<auto_persons, detections, files, clock, writer, hashseed, tx, mVars>>

Classify_strict(n) ==
    IF n < 0 THEN "http_500"
    ELSE IF n = 0 THEN "no_face"
    ELSE IF n > 1 THEN "multiple_faces"
    ELSE "single"

Classify_pairs(n) ==
    IF n < 0 THEN "no_face"
    ELSE IF n = 0 THEN "no_face"
    ELSE IF n > 2 THEN "multiple_faces"
    ELSE "single"

\* The branches of lines 359-390 on what DeepFace.analyze returned: a list
\* of n face descriptions, or an exception (n < 0).
Classify(n) ==
    IF n < 0 THEN "no_face"
    ELSE IF n = 0 THEN "no_face"
    ELSE IF n > 1 THEN "multiple_faces"
    ELSE "single"

\* check_person, lines 358-390: DeepFace.analyze and the face count.
Analyze(w) ==
    /\ pc[w] = "analyze"
    /\ LET n == DeepFace_analyze(request[w].img)
           h == [hist[w] EXCEPT !.analyzeCalls = @ + 1, !.faces = n,
                                !.detsAtEnd = Len(detections)]
       IN
       /\ hist' = [hist EXCEPT ![w] = h]
       /\ IF Classify(n) = "single"
          THEN /\ pc' = [pc EXCEPT ![w] = "find"]
               /\ UNCHANGED <<response, lastCall, tempfiles>>
          ELSE /\ tempfiles' = Cleanup(tempfiles, temp_file_path[w])
               /\ Finish(w, request[w].img,
                         [Respond(Classify(n)) EXCEPT
                             !.faces = IF n > 1 THEN n ELSE 0], h)
    /\ UNCHANGED <<auto_persons, detections, files, clock, writer, hashseed, ncalls,
                   request, temp_file_path, match_result, tx, mVars>>

\* check_person, lines 392-395: the gallery scan and the branch on found.
Find(w) ==
    /\ pc[w] = "find"
    /\ LET stored_persons == StoredPersons
           outcome == Outcomes(stored_persons, request[w].img)
           r == find_existing_person(stored_persons, outcome, request[w].threshold)
       IN
       /\ match_result' = [match_result EXCEPT ![w] = r]
       /\ hist' = [hist EXCEPT ![w] =
              [@ EXCEPT !.findCalls = @ + 1,
                        !.verifyCalls = Cardinality({i \in 1..Len(stored_persons) :
                                                      outcome[i].kind # "missing"}),
                        !.personsAtScan = Len(stored_persons),
                        !.detsAtScan = Len(detections),
                        !.unmatched = ~r.found]]
       /\ pc' = [pc EXCEPT ![w] = IF r.found THEN "update" ELSE "register"]
    /\ UNCHANGED <<auto_persons, detections, files, tempfiles, clock, writer, hashseed,
                   ncalls, request, temp_file_path, tx, response, lastCall, mVars>>


\* find_existing_person when reading the persons raises (lines 156-157), for
\* instance "database is locked" while another connection is committing:
\* lines 195-197 print and return found False with the error text, and
\* check_person branches on found as usual (lines 395, 433-435).
FindError(w) ==
    /\ pc[w] = "find"
    /\ writer \notin {0, w}
    /\ match_result' = [match_result EXCEPT ![w] = [NoResult EXCEPT !.error = TRUE]]
    /\ hist' = [hist EXCEPT ![w] =
           [@ EXCEPT !.findCalls = @ + 1,
                     !.personsAtScan = Len(auto_persons),
                     !.detsAtScan = Len(detections),
                     !.unmatched = TRUE,
                     !.scanError = TRUE]]
    /\ pc' = [pc EXCEPT ![w] = "register"]
    /\ UNCHANGED <<auto_persons, detections, files, tempfiles, clock, writer, hashseed,
                   ncalls, request, temp_file_path, tx, response, lastCall, mVars>>

\* The SELECT of lines 411-418 and the person_recognized response.
Recognized(w, persons) ==
    LET person_id == match_result[w].person_id
    IN  [status |-> "person_recognized", person_id |-> person_id,
         person_code |-> persons[person_id].person_code, faces |-> 0,
         total_detections |-> persons[person_id].total_detections,
         confidence_avg |-> persons[person_id].confidence_avg]

\* update_existing_person, lines 262-289: the UPDATE takes the write lock and
\* the detection is inserted in the same transaction.
UpdateExec(w) ==
    /\ pc[w] = "update"
    /\ CanWrite(w)
    /\ LET person_id == match_result[w].person_id
           confidence == match_result[w].confidence
       IN  tx' = [tx EXCEPT ![w] =
                     [kind |-> "update", person_id |-> person_id,
                      row |-> UpdatedRow(auto_persons[person_id], confidence),
                      detection |-> MatchDetection(person_id, confidence,
                                                   request[w].image_hash)]]
    /\ writer' = w
    /\ pc' = [pc EXCEPT ![w] = "update_commit"]
    /\ UNCHANGED <<auto_persons, detections, files, tempfiles, clock, hashseed, ncalls,
                   request, temp_file_path, match_result, response, hist, lastCall,
                   mVars>>

\* update_existing_person, lines 291 and 297, then check_person lines 410-431.
UpdateCommit(w) ==
    /\ pc[w] = "update_commit"
    /\ LET persons == [auto_persons EXCEPT ![tx[w].person_id] = tx[w].row]
           h == [hist[w] EXCEPT !.detsWritten = @ + 1,
                                !.detsAtEnd = Len(detections) + 1]
       IN
       /\ auto_persons' = persons
       /\ detections' = Append(detections, tx[w].detection)
       /\ hist' = [hist EXCEPT ![w] = h]
       /\ Finish(w, request[w].img, Recognized(w, persons), h)
    /\ writer' = 0
    /\ tx' = [tx EXCEPT ![w] = None]
    /\ tempfiles' = Cleanup(tempfiles, temp_file_path[w])
    /\ UNCHANGED <<files, clock, hashseed, ncalls, request, temp_file_path,
                   match_result, mVars>>

\* update_existing_person when another connection holds the write lock past
\* the busy timeout: the UPDATE raises, lines 293-295 roll back and print,
\* and check_person goes on to lines 410-431.
UpdateLocked(w) ==
    /\ pc[w] = "update"
    /\ ~CanWrite(w)
    /\ LET h == [hist[w] EXCEPT !.detsAtEnd = Len(detections)]
       IN  /\ hist' = [hist EXCEPT ![w] = h]
           /\ Finish(w, request[w].img, Recognized(w, auto_persons), h)
    /\ tempfiles' = Cleanup(tempfiles, temp_file_path[w])
    /\ UNCHANGED <<auto_persons, detections, files, clock, writer, hashseed, ncalls,
                   request, temp_file_path, match_result, tx, mVars>>

CodeTaken_never(person_code) == FALSE

\* person_code TEXT UNIQUE NOT NULL (line 30): an INSERT with a code that a
\* stored person already has is rejected.
CodeTaken(person_code) ==
    \E i \in 1..Len(auto_persons) : auto_persons[i].person_code = person_code

\* register_new_person, lines 203-234: person code, copy of the probe to the
\* reference path, INSERT of the person row.  The INSERT raises when the
\* write lock is held past the busy timeout or when person_code is already
\* in the table (UNIQUE, line 30); lines 254-256 roll back and re-raise and
\* check_person turns that into HTTP 500 (lines 446-447).
RegisterInsert(w) ==
    /\ pc[w] = "register"
    /\ LET person_code == generate_person_code(w)
           path == main_image_path(person_code)
           taken == CodeTaken(person_code)
       IN
       /\ files' = (path :> request[w].img) @@ files
       /\ IF CanWrite(w) /\ ~taken
          THEN /\ tx' = [tx EXCEPT ![w] =
                         [kind |-> "register",
                          person_id |-> Len(auto_persons) + 1,
                          row |-> NewPersonRow(person_code, path),
                          detection |-> FirstDetection(Len(auto_persons) + 1,
                                                       request[w].image_hash)]]
               /\ writer' = w
               /\ pc' = [pc EXCEPT ![w] = "register_commit"]
               /\ UNCHANGED <<tempfiles, response, lastCall, hist>>
          ELSE /\ LET h == [hist[w] EXCEPT !.detsAtEnd = Len(detections)]
                  IN  /\ hist' = [hist EXCEPT ![w] = h]
                      /\ Finish(w, request[w].img, Respond("http_500"), h)
               /\ tempfiles' = Cleanup(tempfiles, temp_file_path[w])
               /\ UNCHANGED <<tx, writer>>
    /\ UNCHANGED <<auto_persons, detections, clock, hashseed, ncalls, request,
                   temp_file_path, match_result, mVars>>

\* register_new_person, lines 236-258, then check_person lines 437-444.
RegisterCommit(w) ==
    /\ pc[w] = "register_commit"
    /\ LET h == [hist[w] EXCEPT !.detsWritten = @ + 1, !.personsWritten = @ + 1,
                                !.detsAtEnd = Len(detections) + 1]
       IN
       /\ auto_persons' = Append(auto_persons, tx[w].row)
       /\ detections' = Append(detections, tx[w].detection)
       /\ hist' = [hist EXCEPT ![w] = h]
       /\ Finish(w, request[w].img,
                 [Respond("new_person_registered") EXCEPT
                     !.person_id = tx[w].person_id,
                     !.person_code = tx[w].row.person_code], h)
    /\ writer' = 0
    /\ tx' = [tx EXCEPT ![w] = None]
    /\ tempfiles' = Cleanup(tempfiles, temp_file_path[w])
    /\ UNCHANGED <<files, clock, hashseed, ncalls, request, temp_file_path,
                   match_result, mVars>>

\* A second of wall-clock time passes.
Tick ==
    /\ clock < MaxClock
    /\ clock' = clock + 1
    /\ UNCHANGED <<auto_persons, detections, files, tempfiles, writer, hashseed, ncalls,
                   pc, request, temp_file_path, match_result, tx, response, hist,
                   lastCall, mVars>>

Next ==
    \/ \E w \in Workers, up \in Uploads, th \in Thresholds, save \in {"ok", "write_failed"} :
          Receive(w, up, th, save)
    \/ \E w \in Workers : Analyze(w)
    \/ \E w \in Workers : Find(w)
    \/ \E w \in Workers : FindError(w)
    \/ \E w \in Workers : UpdateExec(w)
    \/ \E w \in Workers : UpdateCommit(w)
    \/ \E w \in Workers : UpdateLocked(w)
    \/ \E w \in Workers : RegisterInsert(w)
    \/ \E w \in Workers : RegisterCommit(w)
    \/ Tick

Spec == Init /\ [][Next]_vars

\* ------------------------------------------------------- stalled face calls
\* DeepFace.analyze (line 360) and DeepFace.verify (line 168) are called
\* synchronously and without a timeout: a call that does not return leaves
\* the handler where it is.  A comparison is only made when the gallery has
\* a candidate whose reference image exists.
Stall(w) ==
    /\ \/ pc[w] = "analyze"
       \/ /\ pc[w] = "find"
          /\ \E i \in 1..Len(auto_persons) :
                 auto_persons[i].main_image_path \in DOMAIN files
    /\ pc' = [pc EXCEPT ![w] = "stalled"]
    /\ UNCHANGED <<auto_persons, detections, files, tempfiles, clock, writer, hashseed,
                   ncalls, request, temp_file_path, match_result, tx, response, hist,
                   lastCall, mVars>>

\* The statements of check_person that worker w executes once it has
\* received a request.
Handle(w) ==
    \/ Analyze(w)
    \/ Find(w)
    \/ FindError(w)
    \/ UpdateExec(w)
    \/ UpdateCommit(w)
    \/ UpdateLocked(w)
    \/ RegisterInsert(w)
    \/ RegisterCommit(w)

\* Requests arriving within one second of the clock, any of whose face
\* calls may stall.
NextStall ==
    \/ \E w \in Workers, up \in Uploads, th \in Thresholds, save \in {"ok", "write_failed"} :
          Receive(w, up, th, save)
    \/ \E w \in Workers : Handle(w)
    \/ \E w \in Workers : Stall(w)

\* A server process keeps executing the handler it is in: uvicorn runs it to
\* its return (line 544).
SpecStall ==
    /\ Init
    /\ [][NextStall]_vars
    /\ \A w \in Workers : WF_vars(Handle(w))

TypeOK ==
    /\ writer \in 0..NumWorkers
    /\ clock \in 0..MaxClock
    /\ ncalls \in 0..MaxCalls
    /\ Len(auto_persons) <= MaxCalls
    /\ Len(detections) <= MaxCalls


\* ---------------------------------------------------------- matcher harness
\* find_existing_person applied to every small gallery: each candidate's
\* reference image is missing, or its comparison raises, or it returns
\* verified and a distance in [0,1] (here 0, 0.35, 0.36 or 1).
MDistances == {0, 35, 36, 100}
MThresholds == {0, 64, 65, 100}

MOutcomes ==
    {[kind |-> "missing", verified |-> FALSE, distance |-> 0],
     [kind |-> "error", verified |-> FALSE, distance |-> 0]}
    \cup [kind : {"ok"}, verified : BOOLEAN, distance : MDistances]

MStored(n) ==
    [i \in 1..n |-> [id |-> i, person_code |-> <<i, 0>>,
                     main_image_path |-> <<<<i, 0>>, i>>]]

InitMatch ==
    /\ auto_persons = <<>>
    /\ detections = <<>>
    /\ files = <<>>
    /\ tempfiles = {}
    /\ clock = 0
    /\ writer = 0
    /\ hashseed = [w \in Workers |-> 0]
    /\ ncalls = 0
    /\ pc = [w \in Workers |-> "idle"]
    /\ request = [w \in Workers |-> NoRequest]
    /\ temp_file_path = [w \in Workers |-> 0]
    /\ match_result = [w \in Workers |-> NoResult]
    /\ tx = [w \in Workers |-> None]
    /\ response = [w \in Workers |-> NoResponse]
    /\ hist = [w \in Workers |-> NoHist]
    /\ lastCall = NoCall
    /\ \E n \in 0..MaxGallery :
          \E outcome \in [1..n -> MOutcomes], th \in MThresholds :
              m_in = [stored |-> MStored(n), outcome |-> outcome,
                      threshold |-> th, applied |-> FALSE]
    /\ m_out = NoResult

MatchRun ==
    /\ ~m_in.applied
    /\ m_out' = find_existing_person(m_in.stored, m_in.outcome, m_in.threshold)
    /\ m_in' = [m_in EXCEPT !.applied = TRUE]
    /\ UNCHANGED <<auto_persons, detections, files, tempfiles, clock, writer, hashseed,
                   ncalls, pc, request, temp_file_path, match_result, tx, response,
                   hist, lastCall>>

NextMatch == MatchRun

SpecMatch == InitMatch /\ [][NextMatch]_vars


\* =================================================================== claims
DetectionsOf(i) == {k \in 1..Len(detections) : detections[k].person_id = i}

\* The detection that created person i: the first one attributed to it.
Initiating(i) == CHOOSE k \in DetectionsOf(i) : \A j \in DetectionsOf(i) : k <= j

RecognizedOf(i) == IF DetectionsOf(i) = {} THEN {} ELSE DetectionsOf(i) \ {Initiating(i)}

RECURSIVE SumConfidence(_)
SumConfidence(S) ==
    IF S = {} THEN 0
    ELSE LET k == CHOOSE k \in S : TRUE
         IN  detections[k].confidence + SumConfidence(S \ {k})

Failed(w) == pc[w] = "done" /\ response[w].status = "http_500"

\* C1: in every reachable state, each person's total_detections equals the
\* number of detections whose person_id is that person, whatever requests
\* have run, interleaved or failed.
C1_TotalEqualsDetectionCount ==
    \A i \in 1..Len(auto_persons) :
        auto_persons[i].total_detections = Cardinality(DetectionsOf(i))

\* A person has been recognized and a later request has failed: with HTTP
\* 500, or recognized without its update being committed.
C1_Witness ==
    /\ \E i \in 1..Len(auto_persons) : auto_persons[i].total_detections >= 2
    /\ \E w \in Workers :
          \/ Failed(w)
          \/ /\ pc[w] = "done"
             /\ response[w].status = "person_recognized"
             /\ hist[w].detsWritten = 0

\* C4: in every reachable state, for each person with at least one
\* recognized detection, confidence_avg is the arithmetic mean of the
\* confidences of its detections other than the initiating one.
C4_AvgIsMeanOfRecognized ==
    \A i \in 1..Len(auto_persons) :
        RecognizedOf(i) # {} =>
            auto_persons[i].confidence_avg[1] * Cardinality(RecognizedOf(i))
                = SumConfidence(RecognizedOf(i)) * auto_persons[i].confidence_avg[2]

\* A person recognized twice with different confidences: 80 and 75.
C4_Witness ==
    \E i \in 1..Len(auto_persons) :
        /\ Cardinality(RecognizedOf(i)) = 2
        /\ auto_persons[i].confidence_avg = <<155, 2>>

\* C8: in every committed state every person row has a detection that
\* references it, its initiating detection with confidence 100: the two rows
\* are committed together or not at all, also when registrations fail.
C8_PersonHasInitiatingDetection ==
    \A i \in 1..Len(auto_persons) :
        /\ DetectionsOf(i) # {}
        /\ detections[Initiating(i)].confidence = 100

\* A registration has failed after the scan while another one is committed.
C8_Witness ==
    /\ Len(auto_persons) >= 1
    /\ \E w \in Workers : Failed(w) /\ hist[w].unmatched


\* The five outcomes of resolveOrRegister, as opposed to HTTP errors.
Outcomes5 == {"exact_duplicate", "no_face", "multiple_faces", "person_recognized",
              "new_person_registered"}

\* Worker w's last request ran alone, right after a request that ran alone.
BackToBack(w) ==
    /\ pc[w] = "done"
    /\ hist[w].solo
    /\ hist[w].prev.valid
    /\ hist[w].prev.solo

\* ------------------------------------------------------------------------
\* C2 (as claimed): two requests for the same face that both scanned the
\* gallery before either committed a registration, and both found no match,
\* leave exactly one new person row between them.
SameFaceRace(w, v) ==
    /\ w # v
    /\ pc[w] = "done" /\ pc[v] = "done"
    /\ FaceOf(request[w].img) = FaceOf(request[v].img)
    /\ FaceOf(request[w].img) # "-"
    /\ hist[w].unmatched /\ hist[v].unmatched
    /\ ~hist[w].scanError /\ ~hist[v].scanError
    /\ hist[w].personsAtScan = hist[v].personsAtScan
    /\ response[w].status \in Outcomes5 /\ response[v].status \in Outcomes5

C2_RaceRegistersOnce ==
    \A w, v \in Workers :
        SameFaceRace(w, v) => hist[w].personsWritten + hist[v].personsWritten = 1

\* ------------------------------------------------------------------------
\* C3 (as claimed): when a request is made right after another one with the
\* same bytes, it returns exact_duplicate with the first request's person id
\* and the number of detections is what it was when it started.
SameBytesTwice(w) ==
    /\ BackToBack(w)
    /\ hist[w].prev.img = request[w].img
    /\ hist[w].prev.status \in Outcomes5
    /\ response[w].status \in Outcomes5

IsDuplicateOfPrev(w) ==
    /\ response[w].status = "exact_duplicate"
    /\ response[w].person_id = hist[w].prev.person_id
    /\ hist[w].detsAtEnd = hist[w].detsAtStart

C3_SecondIsDuplicate_Original ==
    \A w \in Workers : SameBytesTwice(w) => IsDuplicateOfPrev(w)

\* C3 (amended): when a request is made right after another one with the
\* same bytes, and the first one committed a detection for those bytes or
\* itself returned exact_duplicate, the second returns exact_duplicate with
\* the first request's person id and writes no detection.
C3_SecondIsDuplicate ==
    \A w \in Workers :
        ( /\ SameBytesTwice(w)
          /\ \/ hist[w].prev.wrote
             \/ hist[w].prev.status = "exact_duplicate" )
        => IsDuplicateOfPrev(w)

\* The same bytes were submitted twice in a row and the first submission
\* registered or was recognized.
C3_Witness ==
    \E w \in Workers :
        /\ SameBytesTwice(w)
        /\ hist[w].prev.wrote
        /\ response[w].status = "exact_duplicate"

\* ------------------------------------------------------------------------
\* C5 (as claimed): find_existing_person returns found exactly when the
\* highest confidence among the verified candidates whose comparison
\* succeeded is at least the threshold, and then returns a candidate with
\* that confidence.
MVerified == {i \in 1..Len(m_in.stored) :
                 m_in.outcome[i].kind = "ok" /\ m_in.outcome[i].verified}

MConfidence(i) == 100 - m_in.outcome[i].distance

MBest == {i \in MVerified : \A j \in MVerified : MConfidence(j) <= MConfidence(i)}

C5_FoundIffBestMeetsThreshold ==
    m_in.applied =>
        /\ m_out.found <=> (\E i \in MBest : MConfidence(i) >= m_in.threshold)
        /\ m_out.found =>
              /\ m_out.person_id \in MBest
              /\ m_out.confidence = MConfidence(m_out.person_id)

\* ------------------------------------------------------------------------
\* C6 (as claimed): two requests made back to back with different images,
\* neither of which matches anyone in the gallery, both return
\* new_person_registered, with different codes.
C6_BackToBackBothRegister ==
    \A w \in Workers :
        ( /\ BackToBack(w)
          /\ hist[w].prev.img # request[w].img
          /\ hist[w].prev.registering
          /\ hist[w].unmatched )
        => /\ hist[w].prev.status = "new_person_registered"
           /\ response[w].status = "new_person_registered"
           /\ response[w].person_code # hist[w].prev.person_code
           /\ response[w].person_id # hist[w].prev.person_id

\* ------------------------------------------------------------------------
\* C7: a request for which the analysis reports zero faces, or two or more,
\* ends at that step with no_face, or with multiple_faces and the count; it
\* has made no gallery scan and no comparison, and the step leaves the
\* persons and the detections as they were.
C7_NoFaceAndMultipleAreReadOnly ==
    [][\A w \in Workers :
          ( /\ pc[w] = "analyze"
            /\ hist'[w].analyzeCalls = hist[w].analyzeCalls + 1
            /\ (hist'[w].faces = 0 \/ hist'[w].faces >= 2) )
          => /\ pc'[w] = "done"
             /\ response'[w].status =
                    (IF hist'[w].faces = 0 THEN "no_face" ELSE "multiple_faces")
             /\ hist'[w].faces >= 2 => response'[w].faces = hist'[w].faces
             /\ hist'[w].findCalls = 0
             /\ hist'[w].verifyCalls = 0
             /\ hist'[w].personsWritten = 0 /\ hist'[w].detsWritten = 0
             /\ UNCHANGED <<auto_persons, detections, files>>]_vars

\* With someone enrolled, one request has ended no_face and another
\* multiple_faces.
C7_Witness ==
    /\ Len(auto_persons) >= 1
    /\ \E w, v \in Workers :
          /\ pc[w] = "done" /\ response[w].status = "no_face" /\ hist[w].faces = 0
          /\ pc[v] = "done" /\ response[v].status = "multiple_faces"
          /\ response[v].faces = 2

\* ------------------------------------------------------------------------
\* The row person i has after its recognized detections are applied to the
\* row it was registered with, one after another in commit order.
RECURSIVE Replay(_, _, _)
Replay(row, i, k) ==
    IF k > Len(detections) THEN row
    ELSE IF detections[k].person_id = i /\ k # Initiating(i)
    THEN Replay(UpdatedRow(row, detections[k].confidence), i, k + 1)
    ELSE Replay(row, i, k + 1)

\* C9: whatever the interleaving of the recognitions of one person, once
\* they have committed total_detections is 1 plus their number and
\* confidence_avg is what the updates give applied one by one in commit
\* order: none is lost and none was computed from a stale row.
C9_UpdatesAreSerial ==
    \A i \in 1..Len(auto_persons) :
        DetectionsOf(i) # {} =>
            /\ auto_persons[i] =
                   Replay(NewPersonRow(auto_persons[i].person_code,
                                       auto_persons[i].main_image_path), i, 1)
            /\ auto_persons[i].total_detections = 1 + Cardinality(RecognizedOf(i))

\* Two workers matched the same person before either had committed, and both
\* updates are committed.
C9_Witness ==
    \E w, v \in Workers :
        /\ w # v
        /\ pc[w] = "done" /\ pc[v] = "done"
        /\ response[w].status = "person_recognized"
        /\ response[v].status = "person_recognized"
        /\ response[w].person_id = response[v].person_id
        /\ hist[w].detsWritten = 1 /\ hist[v].detsWritten = 1
        /\ hist[w].detsAtScan = hist[v].detsAtScan
        /\ auto_persons[response[w].person_id].total_detections = 3

\* ------------------------------------------------------------------------
\* C10 (as claimed): a request that created a temporary probe file has
\* deleted it by the time it returns, whichever way it returns.
C10_TempFileDeletedOnReturn ==
    \A w \in Workers :
        (pc[w] = "done" /\ hist[w].tempCreated # 0)
            => hist[w].tempCreated \notin tempfiles


\* ------------------------------------------------------------------------
\* C11 (as claimed): the step in which a started registration fails returns
\* a request failure and leaves the gallery as it was: no person row and no
\* detection row is added, and the reference image of every enrolled person
\* is the file it was before.
RegistrationFails(w) ==
    /\ pc[w] = "register"
    /\ pc'[w] = "done"
    /\ response'[w].status = "http_500"

ReferenceImagesKept ==
    \A i \in 1..Len(auto_persons) :
        /\ auto_persons[i].main_image_path \in DOMAIN files'
        /\ files'[auto_persons[i].main_image_path]
               = files[auto_persons[i].main_image_path]

C11_FailedRegistrationLeavesGallery ==
    [][\A w \in Workers :
          RegistrationFails(w) =>
              /\ UNCHANGED <<auto_persons, detections>>
              /\ ReferenceImagesKept]_vars


\* ------------------------------------------------------------------------
\* C12 (as claimed): a request whose gallery scan failed as a whole ends as
\* a request failure and registers no person.
C12_ScanErrorIsRequestFailure ==
    \A w \in Workers :
        (pc[w] = "done" /\ hist[w].scanError) =>
            /\ response[w].status = "http_500"
            /\ hist[w].personsWritten = 0

\* ------------------------------------------------------------------------
\* C13 (as claimed): a request that has returned person_recognized has
\* appended exactly one detection, and that detection carries the matched
\* person, the match confidence and the fingerprint of the probe.
C13_RecognizedAppendsOneDetection ==
    \A w \in Workers :
        (pc[w] = "done" /\ response[w].status = "person_recognized") =>
            /\ hist[w].detsWritten = 1
            /\ \E k \in 1..Len(detections) :
                   /\ detections[k].person_id = response[w].person_id
                   /\ detections[k].image_hash = request[w].image_hash
                   /\ detections[k].confidence = match_result[w].confidence

\* ------------------------------------------------------------------------
\* C14: a request whose upload was saved and whose fingerprint is already
\* in the detections resolves as exact_duplicate in its first step, and a
\* request that resolves as exact_duplicate has made no describe call, no
\* gallery scan and no compare call, and has left the persons, the
\* detections and the reference images as they were.
Saved(w) ==
    /\ ncalls' = ncalls + 1
    /\ temp_file_path'[w] = ncalls'

FingerprintKnown(w) ==
    \E k \in 1..Len(detections) :
        detections[k].image_hash = request'[w].image_hash

NoServiceCallNoWrite(h) ==
    /\ h.analyzeCalls = 0 /\ h.findCalls = 0 /\ h.verifyCalls = 0
    /\ h.personsWritten = 0 /\ h.detsWritten = 0
    /\ h.detsAtEnd = h.detsAtStart

C14_ExactDuplicateIsReadOnly ==
    [][\A w \in Workers :
          /\ (Saved(w) /\ FingerprintKnown(w)) =>
                 /\ pc'[w] = "done"
                 /\ response'[w].status = "exact_duplicate"
                 /\ UNCHANGED <<auto_persons, detections, files>>
          /\ (pc'[w] = "done" /\ response'[w].status = "exact_duplicate") =>
                 NoServiceCallNoWrite(hist'[w])]_vars

\* A request has resolved as exact_duplicate of a recognized person's
\* detection while that person has two detections.
C14_Witness ==
    \E w \in Workers :
        /\ pc[w] = "done"
        /\ response[w].status = "exact_duplicate"
        /\ response[w].person_id >= 1
        /\ auto_persons[response[w].person_id].total_detections = 2
        /\ Len(detections) = 2

\* ------------------------------------------------------------------------
\* C15: after every step no two persons have the same code, and every
\* person that existed before the step is still stored under the same id
\* with the same code.
CodesUnique(persons) ==
    \A i, j \in 1..Len(persons) :
        i # j => persons[i].person_code # persons[j].person_code

C15_CodeUniqueAndStable ==
    [][/\ CodesUnique(auto_persons')
       /\ Len(auto_persons') >= Len(auto_persons)
       /\ \A i \in 1..Len(auto_persons) :
              auto_persons'[i].person_code = auto_persons[i].person_code]_vars

\* Two persons are stored under different codes and a registration that
\* drew the code of one of them has been rejected.
C15_Witness ==
    /\ Len(auto_persons) = 2
    /\ CodesUnique(auto_persons)
    /\ \E w \in Workers :
           /\ pc[w] = "done"
           /\ response[w].status = "http_500"
           /\ hist[w].unmatched
           /\ hist[w].solo
           /\ CodeTaken(generate_person_code(w))

\* ------------------------------------------------------------------------
\* A step that applies a recognition to stored person i: the row changes and
\* the detection appended by the step is attributed to i.
UpdateApplied(i) ==
    /\ auto_persons'[i] # auto_persons[i]
    /\ Len(detections') = Len(detections) + 1
    /\ detections'[Len(detections')].person_id = i

NewConfidence == detections'[Len(detections')].confidence

\* C16 (as claimed): every applied recognition adds one to total_detections
\* and sets confidence_avg to
\* (old confidence_avg * old total_detections + new confidence)
\*     / (old total_detections + 1).
C16_RunningAverage_Original ==
    [][\A i \in 1..Len(auto_persons) :
          UpdateApplied(i) =>
              /\ auto_persons'[i].total_detections
                     = auto_persons[i].total_detections + 1
              /\ auto_persons'[i].confidence_avg
                     = Rat(auto_persons[i].confidence_avg[1]
                               * auto_persons[i].total_detections
                           + NewConfidence * auto_persons[i].confidence_avg[2],
                           auto_persons[i].confidence_avg[2]
                               * (auto_persons[i].total_detections + 1))]_vars

\* C16 (amended): every applied recognition adds one to total_detections and
\* sets confidence_avg to
\* (old confidence_avg * (old total_detections - 1) + new confidence)
\*     / old total_detections,
\* and changes nothing else in the row.
C16_RunningAverage ==
    [][\A i \in 1..Len(auto_persons) :
          UpdateApplied(i) =>
              /\ auto_persons'[i].total_detections
                     = auto_persons[i].total_detections + 1
              /\ auto_persons'[i].confidence_avg
                     = Rat(auto_persons[i].confidence_avg[1]
                               * (auto_persons[i].total_detections - 1)
                           + NewConfidence * auto_persons[i].confidence_avg[2],
                           auto_persons[i].confidence_avg[2]
                               * auto_persons[i].total_detections)
              /\ auto_persons'[i]
                     = [auto_persons[i] EXCEPT
                           !.total_detections = auto_persons'[i].total_detections,
                           !.confidence_avg = auto_persons'[i].confidence_avg]]_vars

\* A person has been recognized twice with different confidences, so the
\* second update averaged over an earlier recognition.
C16_Witness ==
    \E i \in 1..Len(auto_persons) :
        /\ auto_persons[i].total_detections = 3
        /\ \E k, l \in 1..Len(detections) :
               /\ k < l
               /\ detections[k].person_id = i /\ detections[l].person_id = i
               /\ detections[k].confidence < 100
               /\ detections[l].confidence < 100
               /\ detections[k].confidence # detections[l].confidence

\* ------------------------------------------------------------------------
\* The orders in which the n fetched rows can be scanned.
ScanOrders(n) ==
    {p \in [1..n -> 1..n] : \A i, j \in 1..n : i # j => p[i] # p[j]}

Permuted(seq, p) == [i \in 1..Len(p) |-> seq[p[i]]]

\* C17 (as claimed): for every order of the same gallery, with the same
\* outcome for each candidate, find_existing_person returns the same found
\* flag, the same person id and the same confidence.
C17_ScanOrderIndependent ==
    m_in.applied =>
        \A p \in ScanOrders(Len(m_in.stored)) :
            LET r == find_existing_person(Permuted(m_in.stored, p),
                                          Permuted(m_in.outcome, p),
                                          m_in.threshold)
            IN  /\ r.found = m_out.found
                /\ r.person_id = m_out.person_id
                /\ r.confidence = m_out.confidence

\* ------------------------------------------------------------------------
\* The positions of the candidates that were compared, in scan order, and
\* the gallery with the other candidates removed.
RECURSIVE Compared(_, _)
Compared(outcome, i) ==
    IF i > Len(outcome) THEN <<>>
    ELSE IF outcome[i].kind = "ok" THEN <<i>> \o Compared(outcome, i + 1)
    ELSE Compared(outcome, i + 1)

C19_AnalyzeErrorIsNoFace ==
    [][\A w \in Workers :
          ( /\ pc[w] = "analyze"
            /\ hist'[w].analyzeCalls = hist[w].analyzeCalls + 1
            /\ hist'[w].faces < 0 )
          => /\ pc'[w] = "done"
             /\ response'[w].status = "no_face"
             /\ hist'[w].findCalls = 0
             /\ hist'[w].verifyCalls = 0
             /\ hist'[w].personsWritten = 0 /\ hist'[w].detsWritten = 0
             /\ UNCHANGED <<auto_persons, detections, files>>]_vars

\* With someone enrolled, a request whose analysis raised has ended no_face.
C19_Witness ==
    /\ Len(auto_persons) >= 1
    /\ \E w \in Workers :
          /\ pc[w] = "done"
          /\ response[w].status = "no_face"
          /\ hist[w].faces < 0
          /\ hist[w].analyzeCalls = 1

\* ------------------------------------------------------------------------
\* C20 (as claimed): a request whose DeepFace.analyze or DeepFace.verify
\* call stalls still returns, with the no_face outcome and without having
\* written a person or a detection.
C20_StalledCallReturnsNoFace ==
    \A w \in Workers :
        (pc[w] = "stalled") ~>
            ( /\ pc[w] = "done"
              /\ response[w].status = "no_face"
              /\ hist[w].personsWritten = 0
              /\ hist[w].detsWritten = 0 )

\* ------------------------------------------------------------------------
\* C21 (as claimed): in every reachable state, also after concurrent
\* requests that carry the same image bytes, no two detections have the same
\* image_hash.
C21_FingerprintsDistinct ==
    \A k, l \in 1..Len(detections) :
        k # l => detections[k].image_hash # detections[l].image_hash

====
